---- MODULE Spec2Model ----
(***************************************************************************)
(* A model of app.py: parse_github_url, GithubFetcher.fetch_files and the  *)
(* per-file coroutine GithubFetcher.process_file run under asyncio.gather. *)
(*                                                                         *)
(* A Python string is a sequence of symbols.  A symbol is one character    *)
(* ("/", "\n") or a run of characters that no operation of the program     *)
(* splits ("src", "b.py"): strip('/'), split('/'), '/'.join, startswith    *)
(* and the newline translation of a text-mode write are computed on these  *)
(* sequences the way Python computes them on characters.                   *)
(***************************************************************************)
EXTENDS Integers, Sequences, FiniteSets, TLC

VARIABLES
    url,              \* argv: the url argument of main
    pc,               \* where main is: "main", "tree_query", "gather", "done", "raised"
    exc,              \* the exception that left main unhandled, or "none"
    reponame,         \* GithubFetcher.reponame
    branch,           \* GithubFetcher.branch
    subfolder,        \* GithubFetcher.subfolder
    tree_status,      \* status of the answer to the tree GET, 0 before any answer
    tree_error,       \* the exception the tree GET raised, or "none"
    tree,             \* the 'tree' list of the JSON body
    files_to_fetch,   \* the filtered list
    total_files,      \* GithubFetcher.total_files
    progress_bar,     \* GithubFetcher.progress_bar: [state, n, total]
    task,             \* task[i]: state of the i-th process_file coroutine
    task_exc,         \* task_exc[i]: the exception task i raised, or "none"
    content,          \* content[i]: the local variable content of task i
    content_requests, \* number of raw-content GETs issued
    plan,             \* plan[i]: what the network and the filesystem will answer task i
    disk              \* files under root_dir: relative path -> text or Absent

vars == <<url, pc, exc, reponame, branch, subfolder, tree_status, tree_error,
          tree, files_to_fetch, total_files, progress_bar, task, task_exc,
          content, content_requests, plan, disk>>

----------------------------------------------------------------------------
(* Bounds of the model *)

MaxTree == 2     \* longest tree listing explored (besides ExampleTree)

----------------------------------------------------------------------------
(* Strings *)

Slash == "/"
Newline == "\n"
EmptyStr == <<>>

\* values that are no text: each is a symbol no string of the model contains
None == <<"None">>       \* Python's None
Absent == <<"Absent">>   \* no file at that path
Unset == <<"Unset">>     \* a local variable not yet assigned

RECURSIVE lstrip(_)
lstrip(s) ==
    IF s # <<>> /\ Head(s) = Slash THEN lstrip(Tail(s)) ELSE s

RECURSIVE rstrip(_)
rstrip(s) ==
    IF s # <<>> /\ s[Len(s)] = Slash THEN rstrip(SubSeq(s, 1, Len(s) - 1)) ELSE s

\* str.strip('/')
strip(s) == rstrip(lstrip(s))

\* str.split('/'): empty segments are kept, and ''.split('/') is ['']
RECURSIVE split(_)
split(s) ==
    IF \A i \in 1..Len(s) : s[i] # Slash
    THEN <<s>>
    ELSE LET i == CHOOSE k \in 1..Len(s) :
                      s[k] = Slash /\ \A j \in 1..(k - 1) : s[j] # Slash
         IN  <<SubSeq(s, 1, i - 1)>> \o split(SubSeq(s, i + 1, Len(s)))

\* '/'.join(parts)
RECURSIVE join(_)
join(parts) ==
    IF parts = <<>> THEN EmptyStr
    ELSE IF Len(parts) = 1 THEN parts[1]
    ELSE parts[1] \o <<Slash>> \o join(Tail(parts))

\* str.startswith(prefix)
startswith(s, prefix) ==
    Len(prefix) <= Len(s) /\ SubSeq(s, 1, Len(prefix)) = prefix

\* urlparse(url).path: what follows scheme://netloc (the first symbol)
urlparse_path(u) == Tail(u)

----------------------------------------------------------------------------
(* parse_github_url *)

\* a variant that reads the branch one segment early (path_parts[2], [3:])
parse_github_url_shifted(u) ==
    LET path_parts == split(strip(urlparse_path(u)))
    IN  IF Len(path_parts) < 3
        THEN [raised |-> "IndexError", reponame |-> EmptyStr,
              branch |-> EmptyStr, subfolder |-> EmptyStr]
        ELSE [raised |-> "none",
              reponame |-> path_parts[1] \o <<Slash>> \o path_parts[2],
              branch |-> path_parts[3],
              subfolder |-> join(SubSeq(path_parts, 4, Len(path_parts)))]

\* path_parts[3] and path_parts[1] raise IndexError when the list is shorter
parse_github_url(u) ==
    LET path_parts == split(strip(urlparse_path(u)))
    IN  IF Len(path_parts) < 4
        THEN [raised |-> "IndexError", reponame |-> EmptyStr,
              branch |-> EmptyStr, subfolder |-> EmptyStr]
        ELSE [raised |-> "none",
              reponame |-> path_parts[1] \o <<Slash>> \o path_parts[2],
              branch |-> path_parts[4],
              subfolder |-> join(SubSeq(path_parts, 5, Len(path_parts)))]

----------------------------------------------------------------------------
(* Inputs: command lines, tree listings, HTTP responses, filesystem faults *)

Host == "https://github.com"

Urls ==
    { <<Host, Slash, "acme", Slash, "widgets", Slash, "tree", Slash, "main",
        Slash, "src", Slash, "lib">>,
      <<Host, Slash, "acme", Slash, "widgets", Slash, "tree", Slash, "main",
        Slash, "src", Slash>>,
      <<Host, Slash, "acme", Slash, "widgets", Slash, "tree", Slash, "main">>,
      <<Host, Slash, "acme", Slash, "widgets", Slash, "tree">>,
      <<Host, Slash, "acme", Slash, "widgets">>,
      <<Host>> }

Entry(p, t) == [path |-> p, type |-> t]

Entries ==
    { Entry(<<"src", Slash, "a.py">>, "blob"),
      Entry(<<"src", Slash, "lib", Slash, "b.py">>, "blob"),
      Entry(<<"docs", Slash, "c.md">>, "blob"),
      Entry(<<"src", Slash, "lib">>, "tree") }

ExampleTree ==
    << Entry(<<"src", Slash, "a.py">>, "blob"),
       Entry(<<"src", Slash, "lib", Slash, "b.py">>, "blob"),
       Entry(<<"docs", Slash, "c.md">>, "blob"),
       Entry(<<"src", Slash, "lib">>, "tree") >>

SeqsUpTo(S, n) == UNION { [1..k -> S] : k \in 0..n }

Trees == SeqsUpTo(Entries, MaxTree) \cup {ExampleTree}

AllPaths == { e.path : e \in Entries }

TaskIds == 1..(MaxTree + Len(ExampleTree))

Texts == { EmptyStr, <<"a", Newline>> }

BadStatuses == { 404 }

Response(k, st, b) == [kind |-> k, status |-> st, body |-> b]

\* what the tree GET can produce: a status with a JSON body (read only when the
\* status is 200), or an aiohttp.ClientError
TreeResponses ==
    { Response("response", st, t) : st \in {200} \cup BadStatuses, t \in Trees }
      \cup { Response("ClientError", 0, <<>>) }

\* what the GET of a raw-content URL can produce: a status with a text body, or
\* an aiohttp.ClientError
FileResponses ==
    { Response("response", 200, tx) : tx \in Texts }
      \cup { Response("response", st, <<"a">>) : st \in BadStatuses }
      \cup { Response("ClientError", 0, EmptyStr) }

\* where save_file_content can raise OSError: nowhere, in makedirs/open (no file
\* is created), or in write/close after open created the file (only the first k
\* symbols reached the file)
FsOutcomes(w) ==
    { [at |-> "ok", k |-> Len(w)], [at |-> "open", k |-> 0] }
      \cup { [at |-> "write", k |-> n] : n \in 0..(Len(w) - 1) }

----------------------------------------------------------------------------
(* GithubFetcher *)

\* a variant that forgets the type test
keep_prefix_only(item, sub) == startswith(item.path, sub)

\* the condition of the list comprehension
keep_item(item, sub) == startswith(item.path, sub) /\ item.type = "blob"

\* [item for item in tree if ...]
RECURSIVE select_files(_, _)
select_files(t, sub) ==
    IF t = <<>> THEN <<>>
    ELSE (IF keep_item(Head(t), sub) THEN <<Head(t)>> ELSE <<>>)
             \o select_files(Tail(t), sub)

\* a variant that reads the body whatever the status
tree_status_any(resp) == TRUE

\* fetch_files: `if response.status == 200`
tree_status_ok(resp) == resp.status = 200

\* a variant that returns the body whatever the status
get_file_content_any_status(resp) ==
    IF resp.kind = "ClientError" THEN None ELSE resp.body

\* get_file_content: the text of a 200 response, None otherwise
get_file_content(resp) ==
    IF resp.kind = "ClientError" THEN None
    ELSE IF resp.status = 200 THEN resp.body
    ELSE None

\* a variant that tests `content != ""` and so lets None through
truthy_accepts_none(c) == c # EmptyStr

\* `if content:` is false for None and for the empty string
truthy(c) == c # None /\ c # EmptyStr

\* os.linesep of the platform (POSIX)
os_linesep == <<Newline>>

\* a variant with the line separator of another platform
RECURSIVE text_write_crlf(_)
text_write_crlf(s) ==
    IF s = <<>> THEN <<>>
    ELSE (IF Head(s) = Newline THEN <<"\r", Newline>> ELSE <<Head(s)>>)
             \o text_write_crlf(Tail(s))

\* file.write in text mode: every "\n" is written as os.linesep
RECURSIVE text_write(_)
text_write(s) ==
    IF s = <<>> THEN <<>>
    ELSE (IF Head(s) = Newline THEN os_linesep ELSE <<Head(s)>>)
             \o text_write(Tail(s))

\* a variant that creates the directories and never writes the file
save_skips_write(d, filepath, c, fs) ==
    IF fs.at = "ok" THEN [disk |-> d, raised |-> "none"]
    ELSE [disk |-> d, raised |-> "OSError"]

\* a variant that joins root_dir with the same name for every file
save_same_destination(d, filepath, c, fs) ==
    LET dest == <<"src", Slash, "a.py">>
    IN  IF fs.at = "open"
        THEN [disk |-> d, raised |-> "OSError"]
        ELSE IF fs.at = "ok"
        THEN [disk |-> [d EXCEPT ![dest] = c], raised |-> "none"]
        ELSE [disk |-> [d EXCEPT ![dest] = SubSeq(c, 1, fs.k)],
              raised |-> "OSError"]

\* save_file_content: the disk afterwards and the exception raised.  makedirs and
\* open come first; open creates the file empty; write(None) is a TypeError.
save_file_content(d, filepath, c, fs) ==
    IF fs.at = "open"
    THEN [disk |-> d, raised |-> "OSError"]
    ELSE IF c = None
    THEN [disk |-> [d EXCEPT ![filepath] = EmptyStr], raised |-> "TypeError"]
    ELSE IF fs.at = "ok"
    THEN [disk |-> [d EXCEPT ![filepath] = text_write(c)], raised |-> "none"]
    ELSE [disk |-> [d EXCEPT ![filepath] = SubSeq(text_write(c), 1, fs.k)],
          raised |-> "OSError"]

\* a variant that advances the bar by two
progress_update_by_two(pb) == [pb EXCEPT !.n = pb.n + 2]

\* progress_bar.update(1)
progress_update(pb) == [pb EXCEPT !.n = pb.n + 1]

NoBar == [state |-> "none", n |-> 0, total |-> 0]

Tasks == DOMAIN task

\* the answers one task can meet: a response and, for a 200 with a text, the
\* point where the filesystem fails when that text is saved, if it does
PlanFs(r) ==
    IF r.kind = "response" /\ r.status = 200 /\ r.body # EmptyStr
    THEN FsOutcomes(r.body)
    ELSE { [at |-> "ok", k |-> 0] }

FilePlans ==
    UNION { { [resp |-> r, fs |-> f] : f \in PlanFs(r) } : r \in FileResponses }

----------------------------------------------------------------------------
(* main and fetch_files *)

Init ==
    /\ url \in Urls
    /\ pc = "main"
    /\ exc = "none"
    /\ reponame = EmptyStr
    /\ branch = EmptyStr
    /\ subfolder = EmptyStr
    /\ tree_status = 0
    /\ tree_error = "none"
    /\ tree = <<>>
    /\ files_to_fetch = <<>>
    /\ total_files = 0
    /\ progress_bar = NoBar
    /\ task = <<>>
    /\ task_exc = <<>>
    /\ content = <<>>
    /\ content_requests = 0
    /\ plan = <<>>
    /\ disk = [p \in AllPaths |-> Absent]

\* main: parse the url, construct the fetcher, enter fetch_files and issue the tree GET
Main ==
    /\ pc = "main"
    /\ LET r == parse_github_url(url)
       IN  IF r.raised # "none"
           THEN /\ pc' = "raised"
                /\ exc' = r.raised
                /\ UNCHANGED <<reponame, branch, subfolder>>
           ELSE /\ pc' = "tree_query"
                /\ reponame' = r.reponame
                /\ branch' = r.branch
                /\ subfolder' = r.subfolder
                /\ exc' = exc
    /\ UNCHANGED <<url, tree_status, tree_error, tree, files_to_fetch, total_files,
                   progress_bar, task, task_exc, content, content_requests, plan,
                   disk>>

\* the tree GET is answered.  200: filter, then return if nothing matches, else open
\* the bar and hand one process_file coroutine per file to gather.  Another status:
\* print and return.
TreeResponse(resp) ==
    /\ pc = "tree_query"
    /\ resp.kind = "response"
    /\ tree_status' = resp.status
    /\ IF tree_status_ok(resp)
       THEN /\ tree' = resp.body
            /\ files_to_fetch' = select_files(tree', subfolder)
            /\ total_files' = Len(files_to_fetch')
            /\ IF total_files' = 0
               THEN /\ pc' = "done"
                    /\ UNCHANGED <<progress_bar, task, task_exc, content, plan>>
               ELSE /\ pc' = "gather"
                    /\ progress_bar' =
                          [state |-> "open", n |-> 0, total |-> total_files']
                    /\ task' = [i \in 1..total_files' |-> "created"]
                    /\ task_exc' = [i \in 1..total_files' |-> "none"]
                    /\ content' = [i \in 1..total_files' |-> Unset]
                    /\ plan' \in [1..total_files' -> FilePlans]
       ELSE /\ pc' = "done"
            /\ UNCHANGED <<tree, files_to_fetch, total_files, progress_bar, task,
                           task_exc, content, plan>>
    /\ UNCHANGED <<url, exc, reponame, branch, subfolder, tree_error,
                   content_requests, disk>>

\* the tree GET raises aiohttp.ClientError: caught, print and return
TreeClientError ==
    /\ pc = "tree_query"
    /\ tree_error' = "ClientError"
    /\ pc' = "done"
    /\ UNCHANGED <<url, exc, reponame, branch, subfolder, tree_status, tree,
                   files_to_fetch, total_files, progress_bar, task, task_exc,
                   content, content_requests, plan, disk>>

\* the event loop starts the tasks of gather in the order they were created:
\* process_file runs up to the await of session.get
StartTask(i) ==
    /\ pc = "gather"
    /\ i \in Tasks
    /\ task[i] = "created"
    /\ \A j \in 1..(i - 1) : task[j] # "created"
    /\ task' = [task EXCEPT ![i] = "fetching"]
    /\ content_requests' = content_requests + 1
    /\ UNCHANGED <<url, pc, exc, reponame, branch, subfolder, tree_status,
                   tree_error, tree, files_to_fetch, total_files, progress_bar,
                   task_exc, content, plan, disk>>

\* the answer to task i's GET arrives (no answer arrives before every task has
\* reached its await) and process_file runs to its end
ProcessFile(i) ==
    /\ pc = "gather"
    /\ i \in Tasks
    /\ task[i] = "fetching"
    /\ \A j \in Tasks : task[j] # "created"
    /\ LET filepath == files_to_fetch[i].path
           c == get_file_content(plan[i].resp)
       IN  /\ content' = [content EXCEPT ![i] = c]
           /\ IF truthy(c)
              THEN LET saved == save_file_content(disk, filepath, c, plan[i].fs)
                   IN  /\ disk' = saved.disk
                       /\ task_exc' = [task_exc EXCEPT ![i] = saved.raised]
                       /\ IF saved.raised = "none"
                          THEN /\ progress_bar' = progress_update(progress_bar)
                               /\ task' = [task EXCEPT ![i] = "done"]
                          ELSE /\ progress_bar' = progress_bar
                               /\ task' = [task EXCEPT ![i] = "raised"]
              ELSE /\ disk' = disk
                   /\ task_exc' = task_exc
                   /\ progress_bar' = progress_update(progress_bar)
                   /\ task' = [task EXCEPT ![i] = "done"]
    /\ UNCHANGED <<url, pc, exc, reponame, branch, subfolder, tree_status,
                   tree_error, tree, files_to_fetch, total_files, content_requests,
                   plan>>

\* a variant that stops waiting when the first task has returned
GatherReturnsFirst ==
    /\ pc = "gather"
    /\ \E i \in Tasks : task[i] = "done"
    /\ progress_bar' = [progress_bar EXCEPT !.state = "closed"]
    /\ pc' = "done"
    /\ UNCHANGED <<url, exc, reponame, branch, subfolder, tree_status, tree_error,
                   tree, files_to_fetch, total_files, task, task_exc, content,
                   content_requests, plan, disk>>

\* every task returned: gather returns, the bar is closed, fetch_files and main return
GatherReturns ==
    /\ pc = "gather"
    /\ \A i \in Tasks : task[i] = "done"
    /\ progress_bar' = [progress_bar EXCEPT !.state = "closed"]
    /\ pc' = "done"
    /\ UNCHANGED <<url, exc, reponame, branch, subfolder, tree_status, tree_error,
                   tree, files_to_fetch, total_files, task, task_exc, content,
                   content_requests, plan, disk>>

\* a task raised: gather re-raises its exception without waiting for the others;
\* no except clause of fetch_files matches it, so it leaves fetch_files and main
GatherRaises ==
    /\ pc = "gather"
    /\ \E i \in Tasks : task[i] = "raised" /\ exc' = task_exc[i]
    /\ pc' = "raised"
    /\ UNCHANGED <<url, reponame, branch, subfolder, tree_status, tree_error, tree,
                   files_to_fetch, total_files, progress_bar, task, task_exc,
                   content, content_requests, plan, disk>>

\* asyncio.run cancels the tasks still pending once main has raised
CancelTask(i) ==
    /\ pc = "raised"
    /\ i \in Tasks
    /\ task[i] \in {"created", "fetching"}
    /\ task' = [task EXCEPT ![i] = "cancelled"]
    /\ UNCHANGED <<url, pc, exc, reponame, branch, subfolder, tree_status,
                   tree_error, tree, files_to_fetch, total_files, progress_bar,
                   task_exc, content, content_requests, plan, disk>>

Next ==
    \/ Main
    \/ \E resp \in TreeResponses : TreeResponse(resp)
    \/ TreeClientError
    \/ \E i \in TaskIds : StartTask(i)
    \/ \E i \in TaskIds : ProcessFile(i)
    \/ GatherReturns
    \/ GatherRaises
    \/ \E i \in TaskIds : CancelTask(i)

Spec == Init /\ [][Next]_vars

----------------------------------------------------------------------------
(* Vocabulary of the properties *)

PathOf(i) == files_to_fetch[i].path

DistinctPaths ==
    \A i \in Tasks : \A j \in Tasks : PathOf(i) = PathOf(j) => i = j

\* the run is over: main returned or raised, and nothing is left to cancel
RunEnded ==
    /\ pc \in {"done", "raised"}
    /\ \A i \in Tasks : task[i] \notin {"created", "fetching"}

\* the GET of task i is answered 200 / with a non-empty text / not with 200
Fetch200(i) == plan[i].resp.kind = "response" /\ plan[i].resp.status = 200
FetchText(i) == Fetch200(i) /\ plan[i].resp.body # EmptyStr
FetchFails(i) == ~Fetch200(i)

\* the filesystem fails while the text task i fetched is saved
WriteRaises(i) == FetchText(i) /\ plan[i].fs.at # "ok"
NoWriteRaises == \A i \in Tasks : ~WriteRaises(i)

\* s begins with p, symbol by symbol
HasPrefix(s, p) ==
    /\ Len(p) <= Len(s)
    /\ \A j \in 1..Len(p) : s[j] = p[j]

\* the positions of the tree a selection must keep, and the k-th of them
Matching(t, sub) ==
    { i \in 1..Len(t) : t[i].type = "blob" /\ HasPrefix(t[i].path, sub) }
Blobs(t) == { i \in 1..Len(t) : t[i].type = "blob" }
Nth(S, k) == CHOOSE i \in S : Cardinality({ j \in S : j < i }) = k - 1

\* the number of path segments of a url none of whose segments is empty
Segments(u) == Cardinality({ i \in 2..Len(u) : u[i] # Slash })

\* what task i leaves at its path when it runs alone, from its answers only
PlannedFile(i) ==
    IF ~FetchText(i) THEN Absent
    ELSE IF plan[i].fs.at = "ok" THEN plan[i].resp.body
    ELSE IF plan[i].fs.at = "open" THEN Absent
    ELSE SubSeq(plan[i].resp.body, 1, plan[i].fs.k)

PlannedDisk ==
    [p \in AllPaths |->
        IF \E i \in Tasks : PathOf(i) = p
        THEN PlannedFile(CHOOSE i \in Tasks : PathOf(i) = p)
        ELSE Absent]

----------------------------------------------------------------------------
(* C1 *)

----------------------------------------------------------------------------
(* C2 *)

\* C2: once the tree GET has answered a status other than 200 or has raised a
\* ClientError, no task exists, no content request was issued and no file is
\* written, in every later state.
C2_TreeFailureStopsAll ==
    ((tree_status # 0 /\ tree_status # 200) \/ tree_error # "none")
        => /\ task = <<>>
           /\ files_to_fetch = <<>>
           /\ content_requests = 0
           /\ \A p \in AllPaths : disk[p] = Absent

C2_Witness ==
    /\ pc = "done"
    /\ tree_status \in BadStatuses
    /\ content_requests = 0

----------------------------------------------------------------------------
(* C3 *)

\* C3 as stated: once the tree GET has answered 200 the run never ends with an
\* exception, whatever happens in the file tasks (fetch or persist).
C3_Original ==
    tree_status = 200 => pc # "raised"

\* C3 amended: once the tree GET has answered 200, no failed fetch (non-200 or
\* ClientError) escalates: its task returns normally, and the run ends with an
\* exception only when the save of a fetched text raised a filesystem error,
\* which is then the exception that leaves main.
C3_OnlyWriteErrorsEscalate ==
    tree_status = 200 =>
        /\ \A i \in Tasks :
              (task[i] \in {"done", "raised"} /\ FetchFails(i))
                  => (task[i] = "done" /\ content[i] = None)
        /\ \A i \in Tasks : task[i] = "raised" => WriteRaises(i)
        /\ pc = "raised" =>
              /\ exc = "OSError"
              /\ \E i \in Tasks : task[i] = "raised" /\ WriteRaises(i)
        /\ (pc = "done" /\ total_files > 0) =>
              (progress_bar.state = "closed" /\ exc = "none")

C3_Witness ==
    /\ tree_status = 200
    /\ pc = "done"
    /\ exc = "none"
    /\ total_files >= 2
    /\ \A i \in Tasks : FetchFails(i) /\ task[i] = "done"
    /\ \E i \in Tasks : plan[i].resp.kind = "ClientError"
    /\ \E i \in Tasks : plan[i].resp.kind = "response"

----------------------------------------------------------------------------
(* C4 *)

\* C4: after a 200 tree answer the selected files are exactly the entries of
\* type blob whose path starts with the subfolder, in tree order; an empty
\* subfolder selects every blob; no entry of type tree is selected; the example
\* tree with subfolder src/lib selects exactly src/lib/b.py.
C4_Selection ==
    tree_status = 200 =>
        /\ Len(files_to_fetch) = Cardinality(Matching(tree, subfolder))
        /\ \A k \in 1..Len(files_to_fetch) :
              files_to_fetch[k] = tree[Nth(Matching(tree, subfolder), k)]
        /\ subfolder = EmptyStr => Len(files_to_fetch) = Cardinality(Blobs(tree))
        /\ \A k \in 1..Len(files_to_fetch) : files_to_fetch[k].type # "tree"
        /\ total_files = Len(files_to_fetch)
        /\ (tree = ExampleTree /\ subfolder = <<"src", Slash, "lib">>)
              => files_to_fetch = <<Entry(<<"src", Slash, "lib", Slash, "b.py">>, "blob")>>

C4_Witness ==
    /\ tree_status = 200
    /\ tree = ExampleTree
    /\ subfolder = <<"src", Slash, "lib">>
    /\ Len(files_to_fetch) = 1

----------------------------------------------------------------------------
(* C5 *)

\* C5 as stated: a url whose path has 3 segments is parsed without error, with
\* subfolder "", and every blob of the tree is then selected.
C5_Original ==
    (Segments(url) = 3 /\ pc # "main")
        => /\ pc # "raised"
           /\ subfolder = EmptyStr
           /\ tree_status = 200 => Len(files_to_fetch) = Cardinality(Blobs(tree))

\* C5 amended: that holds of a url whose path has 4 segments (owner, repo, the
\* "tree" marker and the branch, no subfolder); with 3 segments or fewer
\* parse_github_url raises IndexError and no request is made.
C5_FourSegments ==
    /\ (Segments(url) = 4 /\ pc # "main")
          => /\ exc # "IndexError"
             /\ reponame = <<"acme", Slash, "widgets">>
             /\ branch = <<"main">>
             /\ subfolder = EmptyStr
             /\ tree_status = 200 =>
                   /\ Len(files_to_fetch) = Cardinality(Blobs(tree))
                   /\ \A k \in 1..Len(files_to_fetch) :
                         files_to_fetch[k] = tree[Nth(Blobs(tree), k)]
    /\ (Segments(url) <= 3 /\ pc # "main")
          => /\ pc = "raised"
             /\ exc = "IndexError"
             /\ tree_status = 0
             /\ tree_error = "none"

C5_Witness ==
    /\ Segments(url) = 4
    /\ tree_status = 200
    /\ subfolder = EmptyStr
    /\ Len(files_to_fetch) >= 2
    /\ Len(files_to_fetch) < Len(tree)

----------------------------------------------------------------------------
(* C6 *)

\* task i returns in this step
Returns(i) == i \in Tasks /\ task[i] = "fetching" /\ task'[i] = "done"

\* C6 as stated: when a task whose fetch was answered 200 returns, the file at
\* its path holds exactly the text fetched, the empty text included.
C6_Original ==
    [][\A i \in TaskIds :
          (Returns(i) /\ Fetch200(i))
              => disk'[PathOf(i)] = plan[i].resp.body]_vars

\* C6 amended: that holds for every non-empty text; a task whose fetch was
\* answered 200 with an empty text returns without touching its path.
C6_RoundTrip ==
    [][\A i \in TaskIds :
          /\ (Returns(i) /\ FetchText(i))
                => disk'[PathOf(i)] = plan[i].resp.body
          /\ (Returns(i) /\ Fetch200(i) /\ ~FetchText(i))
                => disk'[PathOf(i)] = disk[PathOf(i)]]_vars

C6_Witness ==
    \E i \in Tasks :
        /\ task[i] = "done"
        /\ FetchText(i)
        /\ content[i] = <<"a", Newline>>
        /\ disk[PathOf(i)] = <<"a", Newline>>

----------------------------------------------------------------------------
(* C7 *)

\* C7 as stated: in no state has the run completed or aborted while a
\* dispatched task is still unfinished, whatever failure a task hit.
C7_Original ==
    pc \in {"done", "raised"}
        => \A i \in Tasks : task[i] \notin {"created", "fetching"}

\* C7 amended: the bar is closed and the run completes only after every task has
\* returned, whatever fetch failures (non-200, ClientError) the tasks hit; the
\* dispatch phase is left with tasks unfinished only when an exception escaped a
\* task (a filesystem error of its write).
C7_WaitsForAll ==
    /\ (pc = "done" \/ progress_bar.state = "closed")
          => \A i \in Tasks : task[i] = "done"
    /\ (pc = "raised" /\ task # <<>>)
          => \E i \in Tasks : task[i] = "raised" /\ task_exc[i] = "OSError"
    /\ (pc # "gather" /\ NoWriteRaises)
          => \A i \in Tasks : task[i] = "done"

C7_Witness ==
    /\ pc = "done"
    /\ progress_bar.state = "closed"
    /\ total_files >= 2
    /\ \E i \in Tasks : FetchFails(i)
    /\ \A i \in Tasks : task[i] = "done"

----------------------------------------------------------------------------
(* C8 *)

\* C8: the progress counter always equals the number of tasks that have finished
\* their fetch-and-persist step, whether the fetch succeeded or failed, and never
\* exceeds total_files.
C8_ProgressCount ==
    /\ progress_bar.n = Cardinality({ i \in Tasks : task[i] = "done" })
    /\ progress_bar.n <= total_files
    /\ progress_bar.state # "none" => progress_bar.total = total_files
    /\ \A i \in Tasks : (content[i] # Unset /\ ~WriteRaises(i)) => task[i] = "done"

C8_Witness ==
    /\ total_files >= 2
    /\ progress_bar.n = total_files
    /\ \E i \in Tasks : FetchFails(i)
    /\ \E i \in Tasks : FetchText(i)

----------------------------------------------------------------------------
(* C9 *)

----------------------------------------------------------------------------
(* C10 *)

\* C10: a file exists under root_dir only at the path of a selected blob whose
\* fetch was answered 200 with a non-empty text; a task whose fetch gave None or
\* an empty text writes nothing, raises nothing and counts as completed; a task
\* that fetched a non-empty text does call the writer.
C10_WriterSkippedOnNoContent ==
    /\ \A p \in AllPaths :
          disk[p] # Absent
              => \E i \in Tasks :
                    /\ PathOf(i) = p
                    /\ files_to_fetch[i].type = "blob"
                    /\ HasPrefix(p, subfolder)
                    /\ FetchText(i)
                    /\ content[i] = plan[i].resp.body
    /\ \A i \in Tasks :
          (content[i] = None \/ content[i] = EmptyStr)
              => /\ task[i] = "done"
                 /\ task_exc[i] = "none"
                 /\ ~FetchText(i)
    /\ \A i \in Tasks :
          (task[i] = "done" /\ FetchText(i)) => disk[PathOf(i)] # Absent

C10_Witness ==
    /\ pc = "done"
    /\ \E i \in Tasks : content[i] = None /\ disk[PathOf(i)] = Absent
    /\ \E i \in Tasks : content[i] = EmptyStr /\ disk[PathOf(i)] = Absent
    /\ \E i \in Tasks : FetchText(i) /\ disk[PathOf(i)] # Absent

====
